---------------------------- MODULE Spec2Model ----------------------------
(***************************************************************************)
(* Model of the feedback service: the thumb-gesture classifier             *)
(* (gesture_detector.py), the frame pipeline around it and the             *)
(* store-backed HTTP endpoints (main.py).                                  *)
(*                                                                         *)
(* Coordinates.  The landmark coordinates are floats in [0,1].  They are   *)
(* modelled exactly as integers counting units of 1/400 (0.0025); every    *)
(* input coordinate is a multiple of 4 units (0.01), so the mean of four   *)
(* fingertip y's, sum/4, is an exact integer number of units.  The         *)
(* thresholds 0.03 and 0.05 are 12 and 20 units.  np.sqrt is monotone, so  *)
(* sqrt(s) > 0.03 is modelled as s > 0.03^2 on the squared distance.       *)
(***************************************************************************)
EXTENDS Integers, Sequences, FiniteSets, TLC

VARIABLES
    landmarks,          \* argument of detect_thumb_gesture
    gesture,            \* its return value ("pending" before the call)
    frame_data,         \* GestureDetectionRequest.frame_data, a sequence of characters
    hand,               \* what hands.process yields for the decoded image
    detection_result,   \* the dictionary process_frame returns
    gesture_response,   \* the HTTP answer of POST /detect-gesture
    feedbacks,          \* rows of the feedbacks table, oldest first
    open_connections,   \* connections opened by finished requests and never closed
    response            \* the HTTP answer of the last store-backed request

vars == <<landmarks, gesture, frame_data, hand, detection_result,
          gesture_response, feedbacks, open_connections, response>>

gestureVars == <<frame_data, hand, detection_result, gesture_response>>
storeVars == <<feedbacks, open_connections, response>>
classifyVars == <<landmarks, gesture>>

-----------------------------------------------------------------------------
(* Units and thresholds *)

\* n hundredths (0.01 * n) in units of 1/400
P(n) == 4 * n

\* 0.03, the thumb-extension gate (gesture_detector.py:54)
ExtensionThreshold == 12
\* 0.05, the fingertip-relative threshold (gesture_detector.py:65,68)
FingersThreshold == 20
\* 0.03, the wrist-relative threshold (gesture_detector.py:65,68)
WristThreshold == 12
\* the number of points MediaPipe yields for a hand
NumLandmarks == 21

-----------------------------------------------------------------------------
(* Landmark lists.  A Python list of n points is a function on 0..n-1.     *)

Point(x, y) == [x |-> x, y |-> y]

\* a 21-point hand; only indices 0, 2, 4, 8, 12, 16, 20 are read by the code
MakeHand(tip, mcp, iy, my, ry, py, wy) ==
    [i \in 0 .. (NumLandmarks - 1) |->
        CASE i = 4  -> tip
          [] i = 2  -> mcp
          [] i = 8  -> Point(P(50), iy)
          [] i = 12 -> Point(P(50), my)
          [] i = 16 -> Point(P(50), ry)
          [] i = 20 -> Point(P(50), py)
          [] i = 0  -> Point(P(50), wy)
          [] OTHER  -> Point(P(50), P(50))]

ListLen(l) == Cardinality(DOMAIN l)

\* thumb_extension ** 2  (gesture_detector.py:48-51, before np.sqrt)
thumb_extension_sq(l) ==
    (l[4].x - l[2].x) * (l[4].x - l[2].x) + (l[4].y - l[2].y) * (l[4].y - l[2].y)

is_thumb_extended(l) == thumb_extension_sq(l) > ExtensionThreshold * ExtensionThreshold

avg_finger_tip_y(l) == (l[8].y + l[12].y + l[16].y + l[20].y) \div 4

thumb_to_fingers_y(l) == l[4].y - avg_finger_tip_y(l)

thumb_to_wrist_y(l) == l[4].y - l[0].y

\* a variant with the image y axis taken as pointing up
detect_thumb_gesture_flipped(l) ==
    IF ListLen(l) = 0 THEN "none"
    ELSE IF ListLen(l) < NumLandmarks THEN "IndexError"
    ELSE IF ~ is_thumb_extended(l) THEN "none"
    ELSE IF thumb_to_fingers_y(l) > FingersThreshold /\ thumb_to_wrist_y(l) > WristThreshold
         THEN "positive"
    ELSE IF thumb_to_fingers_y(l) < -FingersThreshold /\ thumb_to_wrist_y(l) < -WristThreshold
         THEN "negative"
    ELSE "none"

\* a variant whose extension gate is >= 0.03
detect_thumb_gesture_gate_ge(l) ==
    IF ListLen(l) = 0 THEN "none"
    ELSE IF ListLen(l) < NumLandmarks THEN "IndexError"
    ELSE IF ~ (thumb_extension_sq(l) >= ExtensionThreshold * ExtensionThreshold) THEN "none"
    ELSE IF thumb_to_fingers_y(l) < -FingersThreshold /\ thumb_to_wrist_y(l) < -WristThreshold
         THEN "positive"
    ELSE IF thumb_to_fingers_y(l) > FingersThreshold /\ thumb_to_wrist_y(l) > WristThreshold
         THEN "negative"
    ELSE "none"

\* a variant whose directional comparisons are not strict
detect_thumb_gesture_nonstrict(l) ==
    IF ListLen(l) = 0 THEN "none"
    ELSE IF ListLen(l) < NumLandmarks THEN "IndexError"
    ELSE IF ~ is_thumb_extended(l) THEN "none"
    ELSE IF thumb_to_fingers_y(l) <= -FingersThreshold /\ thumb_to_wrist_y(l) <= -WristThreshold
         THEN "positive"
    ELSE IF thumb_to_fingers_y(l) >= FingersThreshold /\ thumb_to_wrist_y(l) >= WristThreshold
         THEN "negative"
    ELSE "none"

\* ThumbGestureDetector.detect_thumb_gesture; None is "none", an uncaught
\* IndexError on landmarks[4] .. landmarks[20] is "IndexError"
detect_thumb_gesture(l) ==
    IF ListLen(l) = 0 THEN "none"
    ELSE IF ListLen(l) < NumLandmarks THEN "IndexError"
    ELSE IF ~ is_thumb_extended(l) THEN "none"
    ELSE IF thumb_to_fingers_y(l) < -FingersThreshold /\ thumb_to_wrist_y(l) < -WristThreshold
         THEN "positive"
    ELSE IF thumb_to_fingers_y(l) > FingersThreshold /\ thumb_to_wrist_y(l) > WristThreshold
         THEN "negative"
    ELSE "none"

-----------------------------------------------------------------------------
(* Inputs of the classifier *)

\* thumb tip positions
TipPoints == { Point(P(50), P(y)) : y \in {20, 50, 80} }

\* thumb base joint relative to the tip, in hundredths: extensions
\* 0.01, 0.03 (exactly the gate), sqrt(8)/100 < 0.03, sqrt(10)/100 > 0.03, 0.15
McpOffsets == { <<0, 1>>, <<0, 3>>, <<2, 2>>, <<3, 1>>, <<0, 15>> }

\* fingertip and wrist heights relative to the thumb tip, in hundredths
FingerOffsets == { -6, -5, 5, 6 }
OuterFingerOffsets == { -5, 5 }
WristOffsets == { -4, -3, 0, 3, 4 }

HandsAt(tip) ==
    { MakeHand(tip, Point(tip.x + P(o[1]), tip.y + P(o[2])),
               tip.y + P(f[1]), tip.y + P(f[2]), tip.y + P(f[3]), tip.y + P(f[4]),
               tip.y + P(w)) :
        o \in McpOffsets, f \in FingerOffsets \X FingerOffsets \X OuterFingerOffsets \X OuterFingerOffsets,
        w \in WristOffsets }

\* the scenarios A, B and C of the specification's end-to-end examples
ScenarioA == MakeHand(Point(P(50), P(20)), Point(P(50), P(35)),
                      P(45), P(45), P(45), P(45), P(50))
ScenarioB == MakeHand(Point(P(50), P(80)), Point(P(50), P(65)),
                      P(50), P(50), P(50), P(50), P(45))
ScenarioC == MakeHand(Point(P(50), P(20)), Point(P(50), P(21)),
                      P(45), P(45), P(45), P(45), P(50))

EmptyList == [i \in {} |-> Point(0, 0)]
ShortList == [i \in 0 .. 4 |-> Point(P(50), P(50))]

LandmarkInputs ==
    UNION { HandsAt(t) : t \in TipPoints } \cup {ScenarioA, ScenarioB, ScenarioC}
        \cup {EmptyList, ShortList}

-----------------------------------------------------------------------------
(* The frame pipeline: ThumbGestureDetector.process_frame and the          *)
(* POST /detect-gesture endpoint.  A string is a sequence of characters:   *)
(* "h" stands for the text of a data-URL header ("data:image/jpeg;base64"),*)
(* "," is the comma, "!" is a character outside the base64 alphabet (a     *)
(* line break, a blank), the rest are base64 letters.                      *)

Base64Alphabet == {"i", "V", "B", "O", "G", "A"}

\* positions of the commas of s, in increasing order
CommaPositions(s) == { i \in 1 .. Len(s) : s[i] = "," }

Min(S) == CHOOSE m \in S : \A n \in S : m <= n

\* len(s.split(','))
SplitCount(s) == Cardinality(CommaPositions(s)) + 1

\* s.split(',')[1], defined when SplitCount(s) >= 2
SplitSecond(s) ==
    LET first == Min(CommaPositions(s))
        later == { i \in CommaPositions(s) : i > first }
        stop  == IF later = {} THEN Len(s) + 1 ELSE Min(later)
    IN  SubSeq(s, first + 1, stop - 1)

\* base64.b64decode(s) with validate=False: characters outside the alphabet
\* are discarded before the padding check; four letters make one group of
\* three bytes, named here by its letters
b64decode(s) ==
    LET clean == SelectSeq(s, LAMBDA c : c \in Base64Alphabet)
    IN  IF Len(clean) % 4 # 0
        THEN [ok |-> FALSE, bytes |-> << >>]
        ELSE [ok |-> TRUE,
              bytes |-> [k \in 1 .. (Len(clean) \div 4) |-> SubSeq(clean, 4 * k - 3, 4 * k)]]

\* the encoded files used as inputs
RgbFile == <<"i", "V", "B", "O">>
GrayFile == <<"i", "V", "B", "G">>
JunkFile == <<"A", "A", "A", "A">>

\* Image.open(BytesIO(image_data)): the mode of the image, or "unidentified"
\* when PIL raises UnidentifiedImageError
ImageOpen(bytes) ==
    IF bytes = <<RgbFile>> THEN "RGB"
    ELSE IF bytes = <<GrayFile>> THEN "L"
    ELSE "unidentified"

\* Python's {} and None for the landmarks field
EmptyDict == [k \in {} |-> 0]
NoLandmarks == EmptyList

\* the dictionary of the except branch (gesture_detector.py:153-160)
ErrorResult(msg) ==
    [gesture |-> "none", landmarks |-> NoLandmarks, debug_info |-> EmptyDict,
     error |-> msg, hands_detected |-> FALSE]

\* debug_info as filled at gesture_detector.py:141-146
DebugInfo(l) ==
    [thumb_extension_sq |-> thumb_extension_sq(l),
     thumb_to_fingers_y |-> thumb_to_fingers_y(l),
     thumb_to_wrist_y |-> thumb_to_wrist_y(l),
     is_thumb_extended |-> is_thumb_extended(l)]

\* the body of the try block once the frame is decoded (lines 93-151);
\* h is what hands.process yields: at most one hand (max_num_hands=1)
DetectInFrame(h) ==
    IF ~ h.detected
    THEN [gesture |-> "none", landmarks |-> NoLandmarks, debug_info |-> EmptyDict,
          error |-> "No hands detected", hands_detected |-> FALSE]
    ELSE LET g == detect_thumb_gesture(h.landmarks)
         IN  IF g = "IndexError" THEN ErrorResult("list index out of range")
             ELSE IF g \in {"positive", "negative"}
             THEN [gesture |-> g, landmarks |-> h.landmarks,
                   debug_info |-> DebugInfo(h.landmarks),
                   error |-> "None", hands_detected |-> TRUE]
             ELSE [gesture |-> "none", landmarks |-> NoLandmarks, debug_info |-> EmptyDict,
                   error |-> "None", hands_detected |-> TRUE]

Returned(d) == [raised |-> FALSE, value |-> d]
Raised(msg) == [raised |-> TRUE, value |-> ErrorResult(msg)]

\* a variant that splits frame_data before entering the try block
process_frame_split_outside_try(fd, h) ==
    IF SplitCount(fd) < 2 THEN Raised("list index out of range")
    ELSE LET decoded == b64decode(SplitSecond(fd))
         IN  IF ~ decoded.ok THEN Returned(ErrorResult("Incorrect padding"))
             ELSE IF ImageOpen(decoded.bytes) = "unidentified"
             THEN Returned(ErrorResult("cannot identify image file"))
             ELSE IF ImageOpen(decoded.bytes) = "L"
             THEN Returned(ErrorResult("Invalid number of channels in input image"))
             ELSE Returned(DetectInFrame(h))

\* ThumbGestureDetector.process_frame: every exception of the body is
\* caught and turned into the error dictionary
process_frame(fd, h) ==
    IF SplitCount(fd) < 2 THEN Returned(ErrorResult("list index out of range"))
    ELSE LET decoded == b64decode(SplitSecond(fd))
         IN  IF ~ decoded.ok THEN Returned(ErrorResult("Incorrect padding"))
             ELSE IF ImageOpen(decoded.bytes) = "unidentified"
             THEN Returned(ErrorResult("cannot identify image file"))
             ELSE IF ImageOpen(decoded.bytes) = "L"
             THEN Returned(ErrorResult("Invalid number of channels in input image"))
             ELSE Returned(DetectInFrame(h))

\* GestureDetectionResponse(**result): the four declared fields are kept
GestureDetectionResponse(d) ==
    [gesture |-> d.gesture, landmarks |-> d.landmarks,
     debug_info |-> d.debug_info, error |-> d.error]

NoBody == [gesture |-> "none", landmarks |-> NoLandmarks,
           debug_info |-> EmptyDict, error |-> "None"]

\* POST /detect-gesture (main.py:179-186)
detect_gesture(fd, h) ==
    LET r == process_frame(fd, h)
    IN  IF r.raised
        THEN [status |-> 500, body |-> NoBody]
        ELSE [status |-> 200, body |-> GestureDetectionResponse(r.value)]

(* Inputs of the frame pipeline *)

Headers == { << >>, <<",">>, <<"h", ",">> }

Payloads ==
    { RgbFile, GrayFile, JunkFile, << >>,
      <<"i", "V", "!", "B", "O">>,        \* the RGB file with a stray character
      <<"i", "V", "B">>,                  \* the RGB file cut short
      <<"i", "V", "B", "O", ",", "A">> }  \* the RGB file followed by a second comma

FrameInputs == { hd \o pl : hd \in Headers, pl \in Payloads }

NoHand == [detected |-> FALSE, landmarks |-> NoLandmarks]
Seen(l) == [detected |-> TRUE, landmarks |-> l]

\* extended thumb pointing sideways: the gate passes, no direction holds
NeutralHand == MakeHand(Point(P(50), P(50)), Point(P(65), P(50)),
                        P(50), P(50), P(50), P(50), P(50))
\* extended thumb exactly 0.05 above the fingertips
BoundaryHand == MakeHand(Point(P(50), P(20)), Point(P(50), P(35)),
                         P(25), P(25), P(25), P(25), P(50))
\* extension exactly 0.03, thumb clearly above fingertips and wrist
GateHand == MakeHand(Point(P(50), P(20)), Point(P(50), P(23)),
                     P(45), P(45), P(45), P(45), P(50))

\* hands.process always yields 21 points for a detected hand
ProviderOutcomes ==
    {NoHand} \cup { Seen(l) : l \in {ScenarioA, ScenarioB, ScenarioC,
                                     NeutralHand, BoundaryHand, GateHand} }

-----------------------------------------------------------------------------
(* The store-backed endpoints of main.py.  A handler runs to its end in    *)
(* one step; `fault` names the psycopg2 call that raises Error during the  *)
(* request ("none": no call raises).  A row keeps the id the store assigns *)
(* and the type; name, email and message are stored as given and are not   *)
(* read by any handler.                                                    *)

\* VARCHAR(20) of the type column (main.py:80)
TypeMaxLen == 20

FeedbackTypes == {"positive", "negative", "neutral", "a_type_of_more_than_20_characters"}

Faults == {"none", "connect", "cursor", "execute", "commit", "fetch", "close"}

\* the most rows the table is let grow to, and the most leaked connections
MaxRows == 3
MaxOpen == 3

Answer(endpoint, status, body, type, id) ==
    [endpoint |-> endpoint, status |-> status, body |-> body, type |-> type, id |-> id]

\* INSERT ... RETURNING id followed by commit: the row is in the table
Insert(table, type) == Append(table, [id |-> Len(table) + 1, type |-> type])

\* POST /feedback (main.py:120-157)
\*   connect : get_db_connection raises HTTPException, caught by `except
\*             Exception`; connection is None in finally
\*   cursor  : connection.cursor() raises; finally runs cursor.close() on the
\*             unbound name cursor, so connection.close() is never reached
\*   execute : the INSERT raises (also when type does not fit VARCHAR(20));
\*             closed without commit
\*   commit  : connection.commit() raises; closed without the row
\*   fetch   : cursor.fetchone() raises after the commit
\*   close   : cursor.close() raises in finally after the return statement
create_feedback(type, fault) ==
    /\ Len(feedbacks) < MaxRows
    /\ open_connections < MaxOpen
    /\ CASE fault = "connect" ->
              /\ response' = Answer("feedback", 500, "Unexpected error", type, 0)
              /\ UNCHANGED <<feedbacks, open_connections>>
         [] fault = "cursor" ->
              /\ response' = Answer("feedback", 500, "Internal Server Error", type, 0)
              /\ open_connections' = open_connections + 1
              /\ UNCHANGED feedbacks
         [] fault = "execute" \/ (fault \in {"none", "commit", "fetch", "close"}
                                  /\ Len(type) > TypeMaxLen) ->
              /\ response' = Answer("feedback", 500, "Database error", type, 0)
              /\ UNCHANGED <<feedbacks, open_connections>>
         [] fault = "commit" /\ Len(type) <= TypeMaxLen ->
              /\ response' = Answer("feedback", 500, "Database error", type, 0)
              /\ UNCHANGED <<feedbacks, open_connections>>
         [] fault = "fetch" /\ Len(type) <= TypeMaxLen ->
              /\ feedbacks' = Insert(feedbacks, type)
              /\ response' = Answer("feedback", 500, "Database error", type, 0)
              /\ UNCHANGED open_connections
         [] fault = "close" /\ Len(type) <= TypeMaxLen ->
              /\ feedbacks' = Insert(feedbacks, type)
              /\ response' = Answer("feedback", 500, "Internal Server Error", type, 0)
              /\ open_connections' = open_connections + 1
         [] fault = "none" /\ Len(type) <= TypeMaxLen ->
              /\ feedbacks' = Insert(feedbacks, type)
              /\ response' = Answer("feedback", 200, "Feedback created successfully with ID",
                                    type, Len(feedbacks) + 1)
              /\ UNCHANGED open_connections
    /\ UNCHANGED <<classifyVars, gestureVars>>

\* GET /health (main.py:106-118): every exception is answered "unhealthy";
\* the two close() calls are reached only when nothing raised before them
health_check(fault) ==
    /\ open_connections < MaxOpen
    /\ CASE fault = "none" ->
              /\ response' = Answer("health", 200, "healthy", "", 0)
              /\ UNCHANGED open_connections
         [] fault = "connect" ->
              /\ response' = Answer("health", 200, "unhealthy", "", 0)
              /\ UNCHANGED open_connections
         [] fault \in {"cursor", "execute", "fetch", "close"} ->
              /\ response' = Answer("health", 200, "unhealthy", "", 0)
              /\ open_connections' = open_connections + 1
    /\ UNCHANGED <<feedbacks, classifyVars, gestureVars>>

\* GET /feedbacks (main.py:159-177).  connection.cursor(dictionary=True) is
\* not a psycopg2 signature: the call raises TypeError, which `except Error`
\* does not catch; finally then runs cursor.close() on the unbound name
\* cursor and connection.close() is never reached.  When the connection
\* fails, finally reads the unbound name connection.  Lines 166-170 are
\* never executed.
get_feedbacks(fault) ==
    /\ open_connections < MaxOpen
    /\ CASE fault = "connect" ->
              /\ response' = Answer("feedbacks", 500, "Internal Server Error", "", 0)
              /\ UNCHANGED open_connections
         [] fault = "none" ->
              /\ response' = Answer("feedbacks", 500, "Internal Server Error", "", 0)
              /\ open_connections' = open_connections + 1
    /\ UNCHANGED <<feedbacks, classifyVars, gestureVars>>

-----------------------------------------------------------------------------
(* Initial values and specifications *)

PendingResult == [raised |-> FALSE, value |-> ErrorResult("pending")]
PendingResponse == [status |-> 0, body |-> NoBody]
PendingAnswer == Answer("none", 0, "", "", 0)

GestureIdle ==
    /\ frame_data = << >>
    /\ hand = NoHand
    /\ detection_result = PendingResult
    /\ gesture_response = PendingResponse

StoreIdle ==
    /\ feedbacks = << >>
    /\ open_connections = 0
    /\ response = PendingAnswer

ClassifyIdle ==
    /\ landmarks = EmptyList
    /\ gesture = "pending"

(* the classifier alone: one call of detect_thumb_gesture on each input *)

InitClassify ==
    /\ landmarks \in LandmarkInputs
    /\ gesture = "pending"
    /\ GestureIdle
    /\ StoreIdle

Classify ==
    /\ gesture = "pending"
    /\ gesture' = detect_thumb_gesture(landmarks)
    /\ UNCHANGED <<landmarks, gestureVars, storeVars>>

NextClassify == Classify

SpecClassify == InitClassify /\ [][NextClassify]_vars

(* the gesture endpoint *)

InitFrame == GestureIdle /\ ClassifyIdle /\ StoreIdle

\* one POST /detect-gesture request, handled to its end
DetectGesture ==
    \E fd \in FrameInputs, h \in ProviderOutcomes :
        /\ frame_data' = fd
        /\ hand' = h
        /\ detection_result' = process_frame(fd, h)
        /\ gesture_response' = detect_gesture(fd, h)
        /\ UNCHANGED <<classifyVars, storeVars>>

NextFrame == DetectGesture

SpecFrame == InitFrame /\ [][NextFrame]_vars

(* the store-backed endpoints *)

InitStore == StoreIdle /\ ClassifyIdle /\ GestureIdle

CreateFeedback == \E type \in FeedbackTypes, fault \in Faults : create_feedback(type, fault)

HealthCheck == \E fault \in Faults \ {"commit"} : health_check(fault)

GetFeedbacks == \E fault \in {"none", "connect"} : get_feedbacks(fault)

NextStore == CreateFeedback \/ HealthCheck \/ GetFeedbacks

SpecStore == InitStore /\ [][NextStore]_vars

-----------------------------------------------------------------------------
(* Properties of detect_thumb_gesture.  The measurements are restated here *)
(* from the landmark coordinates, with the mean cleared of its division.   *)

Classified == gesture # "pending" /\ ListLen(landmarks) = NumLandmarks

\* squared distance between thumb tip and thumb base joint
ExtSq == (landmarks[4].x - landmarks[2].x) * (landmarks[4].x - landmarks[2].x)
         + (landmarks[4].y - landmarks[2].y) * (landmarks[4].y - landmarks[2].y)

\* 4 * (landmarks[4].y - mean(y of 8, 12, 16, 20))
FingersDiff4 == 4 * landmarks[4].y
                - (landmarks[8].y + landmarks[12].y + landmarks[16].y + landmarks[20].y)

WristDiff == landmarks[4].y - landmarks[0].y

Extended == ExtSq > 12 * 12
Upward == FingersDiff4 < -(4 * 20) /\ WristDiff < -12
Downward == FingersDiff4 > 4 * 20 /\ WristDiff > 12

\* C1: a 21-point hand with extension > 0.03, thumb_to_fingers_y < -0.05 and
\* thumb_to_wrist_y < -0.03 is classified 'positive'.
C1_Positive == (Classified /\ Extended /\ Upward) => gesture = "positive"

\* scenario A has been classified
C1_Witness == landmarks = ScenarioA /\ gesture = "positive" /\ Extended /\ Upward

\* C2: a 21-point hand with extension > 0.03, thumb_to_fingers_y > 0.05 and
\* thumb_to_wrist_y > 0.03 is classified 'negative'.
C2_Negative == (Classified /\ Extended /\ Downward) => gesture = "negative"

\* scenario B has been classified
C2_Witness == landmarks = ScenarioB /\ gesture = "negative" /\ Extended /\ Downward

\* C3: a 21-point hand with extension <= 0.03 yields no gesture, whatever the
\* fingertips and the wrist are.
C3_Folded == (Classified /\ ~ Extended) => gesture = "none"

\* a hand whose extension is exactly 0.03 and whose thumb points clearly up
\* has been classified
C3_Witness == Classified /\ ExtSq = 12 * 12 /\ Upward /\ gesture = "none"

\* C4: a 21-point hand with extension > 0.03 for which neither directional
\* condition holds yields no gesture; the comparisons are strict.
C4_Neither == (Classified /\ Extended /\ ~ Upward /\ ~ Downward) => gesture = "none"

\* an extended thumb exactly 0.05 above the fingertip mean, well above the
\* wrist, has been classified
C4_Witness == /\ Classified /\ Extended
              /\ FingersDiff4 = -(4 * 20) /\ WristDiff < -12
              /\ gesture = "none"

-----------------------------------------------------------------------------
(* Properties of process_frame and POST /detect-gesture *)

Responded == gesture_response.status # 0

FourMeasurements ==
    {"thumb_extension_sq", "thumb_to_fingers_y", "thumb_to_wrist_y", "is_thumb_extended"}

\* the squared thumb extension of the hand the provider yielded
HandExtSq == (hand.landmarks[4].x - hand.landmarks[2].x) * (hand.landmarks[4].x - hand.landmarks[2].x)
             + (hand.landmarks[4].y - hand.landmarks[2].y) * (hand.landmarks[4].y - hand.landmarks[2].y)

\* C5: when a hand is detected, debug_info holds the four measurements
\* whenever the extension gate passes (whatever the gesture), and is empty
\* when the gate short-circuits.
C5_DebugInfoWheneverGatePasses ==
    (Responded /\ detection_result.value.hands_detected) =>
        IF HandExtSq > 12 * 12
        THEN DOMAIN detection_result.value.debug_info = FourMeasurements
        ELSE DOMAIN detection_result.value.debug_info = {}

\* the text the base64 decoder is given when the header is optional
Payload(fd) == IF SplitCount(fd) >= 2 THEN SplitSecond(fd) ELSE fd

\* not a base64 text: a character outside the alphabet, or a length that is
\* not a multiple of four
InvalidBase64(s) == (\E i \in 1 .. Len(s) : s[i] \notin Base64Alphabet) \/ Len(s) % 4 # 0

\* the letters of s are not the encoding of an image the pipeline can use
UndecodableImage(s) ==
    LET letters == SelectSeq(s, LAMBDA c : c \in Base64Alphabet)
    IN  letters # RgbFile

Malformed(fd) == InvalidBase64(Payload(fd)) \/ UndecodableImage(Payload(fd))

NoGestureWithReason ==
    /\ ~ detection_result.raised
    /\ detection_result.value.gesture = "none"
    /\ detection_result.value.error \notin {"None", ""}
    /\ gesture_response.status = 200
    /\ gesture_response.body.gesture = "none"
    /\ gesture_response.body.error = detection_result.value.error

\* C7 as stated: every malformed frame_data (invalid base64, undecodable
\* image) is answered with gesture none, a non-empty error and HTTP success.
C7_MalformedIsNoGesture == (Responded /\ Malformed(frame_data)) => NoGestureWithReason

\* the frames the pipeline rejects: no second part after a comma, a number
\* of base64 letters that is not a multiple of four, or letters that are not
\* an RGB image
Rejected(fd) ==
    \/ Cardinality(CommaPositions(fd)) = 0
    \/ LET letters == SelectSeq(Payload(fd), LAMBDA c : c \in Base64Alphabet)
       IN  Len(letters) % 4 # 0 \/ letters # RgbFile

\* C7 amended: process_frame never raises and the endpoint never answers
\* 500; every frame the pipeline rejects is answered with gesture none and a
\* non-empty error.
C7_RejectedIsNoGesture ==
    Responded =>
        /\ ~ detection_result.raised
        /\ gesture_response.status = 200
        /\ Rejected(frame_data) => NoGestureWithReason

\* a frame whose payload is cut short (three base64 letters after the
\* header) has been answered, with a hand in view
C7_Witness ==
    /\ Responded
    /\ frame_data = <<"h", ",", "i", "V", "B">>
    /\ hand.detected
    /\ detection_result.value.error = "Incorrect padding"
    /\ gesture_response.status = 200

\* C8: a valid base64 image sent without any 'header,' prefix is decoded and
\* classified exactly like the same image sent after a data-URL header.
C8_HeaderOptional ==
    (Responded /\ SplitCount(frame_data) = 1 /\ ~ Malformed(frame_data)) =>
        /\ detection_result = process_frame(<<"h", ",">> \o frame_data, hand)
        /\ gesture_response = detect_gesture(<<"h", ",">> \o frame_data, hand)

-----------------------------------------------------------------------------
(* Properties of the store-backed endpoints *)

ValidTypes == {"positive", "negative"}

\* C6: POST /feedback accepts only the types positive and negative: no other
\* type is confirmed, and every stored row has one of the two types.
C6_OnlyValidTypesStored ==
    /\ \A i \in 1 .. Len(feedbacks) : feedbacks[i].type \in ValidTypes
    /\ (response.endpoint = "feedback" /\ response.type \notin ValidTypes)
           => response.status # 200

\* C9: no connection opened by a finished request is still open.
C9_ConnectionsReleased == open_connections = 0

\* C10: a POST /feedback that ends with HTTP 500 leaves the table as it was.
C10_FailsAtomically ==
    [][(response'.endpoint = "feedback" /\ response'.status = 500)
          => feedbacks' = feedbacks]_vars

=============================================================================
